---- MODULE Spec2Model ----
\* Library-mode binding generation (uniffi_bindgen/src/library_mode.rs):
\* calc_cdylib_name, find_sources and generate_external_bindings.
\* Strings are sequences of one-character strings; Option<T> is <<>> (None)
\* or <<v>> (Some(v)).
EXTENDS Naturals, Sequences, FiniteSets, TLC

VARIABLES library_path, config_file, pc, cdylib_name, items, metadata_groups,
          discovered, values, sources, out_dir_created, calls, result

vars == <<library_path, config_file, pc, cdylib_name, items, metadata_groups,
          discovered, values, sources, out_dir_created, calls, result>>

\* ---------------------------------------------------------------- bounds
MaxPieces == 4
MaxItems == 3

\* ---------------------------------------------------------------- strings
None == <<>>
Some(v) == <<v>>

lib == <<"l", "i", "b">>
so == <<".", "s", "o">>
dll == <<".", "d", "l", "l">>
dylib == <<".", "d", "y", "l", "i", "b">>
uniffi == <<"u", "n", "i", "f", "f", "i">>

cdylib_extentions == <<so, dll, dylib>>

starts_with(s, p) == Len(p) <= Len(s) /\ SubSeq(s, 1, Len(p)) = p
ends_with(s, x) == Len(x) <= Len(s) /\ SubSeq(s, Len(s) - Len(x) + 1, Len(s)) = x

strip_prefix(s, p) == IF starts_with(s, p) THEN Some(SubSeq(s, Len(p) + 1, Len(s))) ELSE None
strip_suffix(s, x) == IF ends_with(s, x) THEN Some(SubSeq(s, 1, Len(s) - Len(x))) ELSE None
unwrap_or(opt, d) == IF opt = None THEN d ELSE opt[1]

\* The '/'-separated pieces of a path, empty ones included.
RECURSIVE SplitPath(_, _)
SplitPath(s, cur) ==
    IF s = <<>> THEN <<cur>>
    ELSE IF Head(s) = "/" THEN <<cur>> \o SplitPath(Tail(s), <<>>)
    ELSE SplitPath(Tail(s), Append(cur, Head(s)))

IsNormalOrParent(c) == c # <<>> /\ c # <<".">>

\* Utf8Path::file_name: the last component when it is a normal one; repeated
\* separators and "." components do not count, a final ".." gives None.
file_name(path) ==
    LET comps == SelectSeq(SplitPath(path, <<>>), IsNormalOrParent)
    IN  IF comps = <<>> THEN None
        ELSE IF comps[Len(comps)] = <<".", ".">> THEN None
        ELSE Some(comps[Len(comps)])

\* The loop over cdylib_extentions: the first extension that is a suffix wins.
RECURSIVE StripFirstExt(_, _)
StripFirstExt(filename, exts) ==
    IF exts = <<>> THEN None
    ELSE IF strip_suffix(filename, Head(exts)) # None THEN strip_suffix(filename, Head(exts))
    ELSE StripFirstExt(filename, Tail(exts))

\* calc_cdylib_name without line 81: the `lib` prefix stays.
calc_cdylib_name_keeps_lib(path) ==
    IF file_name(path) = None THEN None
    ELSE StripFirstExt(file_name(path)[1], cdylib_extentions)

\* calc_cdylib_name ending in Some(filename) in place of None.
calc_cdylib_name_or_filename(path) ==
    IF file_name(path) = None THEN None
    ELSE LET filename == unwrap_or(strip_prefix(file_name(path)[1], lib), file_name(path)[1])
         IN  Some(unwrap_or(StripFirstExt(filename, cdylib_extentions), filename))

calc_cdylib_name(path) ==
    IF file_name(path) = None THEN None
    ELSE LET filename == unwrap_or(strip_prefix(file_name(path)[1], lib), file_name(path)[1])
         IN  StripFirstExt(filename, cdylib_extentions)

\* ---------------------------------------------------------------- inputs
Pieces == {<<"/">>, <<".">>, lib, so, dll, dylib, uniffi}

RECURSIVE Flatten(_)
Flatten(ss) == IF ss = <<>> THEN <<>> ELSE Head(ss) \o Flatten(Tail(ss))

PieceSeqs == UNION {[1..n -> Pieces] : n \in 0..MaxPieces}

path_to == <<"/", "p", "a", "t", "h", "/", "t", "o", "/">>

\* The paths of the unit tests of calc_cdylib_name.
TestPaths == {path_to \o lib \o uniffi \o so,
              path_to \o lib \o uniffi \o dylib,
              path_to \o uniffi \o dll,
              path_to \o lib \o uniffi \o dll}

NamePaths == {Flatten(ps) : ps \in PieceSeqs} \cup TestPaths

\* ---------------------------------------------------------------- metadata
Crates == {"core", "net", "util"}

\* A metadata item: a namespace declaration of a crate, or a function of it.
Items == [kind : {"Namespace", "Func"}, crate : Crates]

ItemSeqs == UNION {[1..n -> Items] : n \in 0..MaxItems}

\* The crate names of the Namespace items, each once, in first-seen order.
RECURSIVE FirstSeen(_, _)
FirstSeen(its, seen) ==
    IF its = <<>> THEN seen
    ELSE IF Head(its).kind = "Namespace" /\ \A i \in 1..Len(seen) : seen[i] # Head(its).crate
         THEN FirstSeen(Tail(its), Append(seen, Head(its).crate))
         ELSE FirstSeen(Tail(its), seen)

Range(s) == {s[i] : i \in 1..Len(s)}

\* uniffi_meta::create_metadata_groups: one empty group per declared namespace,
\* keyed by crate name.
create_metadata_groups(its) ==
    [c \in Range(FirstSeen(its, <<>>)) |-> [namespace |-> [crate_name |-> c], items |-> <<>>]]

IsGroupItem(it) == it.kind # "Namespace"

\* uniffi_meta::group_metadata: every other item goes to the group of its
\* crate; an item of a crate without a group is an error.
RECURSIVE AddItems(_, _)
AddItems(groups, its) ==
    IF its = <<>> THEN groups
    ELSE AddItems([groups EXCEPT ![Head(its).crate].items = Append(@, Head(its))], Tail(its))

group_metadata(groups, its) ==
    LET rest == SelectSeq(its, IsGroupItem)
    IN  IF \E i \in 1..Len(rest) : rest[i].crate \notin DOMAIN groups
        THEN [ok |-> FALSE, groups |-> groups]
        ELSE [ok |-> TRUE, groups |-> AddItems(groups, rest)]

Orders(S) == {o \in [1..Cardinality(S) -> S] : \A i, j \in 1..Cardinality(S) : o[i] = o[j] => i = j}

\* into_values that loses the last group of the iteration.
into_values_lossy(groups) ==
    {[i \in 1..(Len(o) - 1) |-> groups[o[i]]] : o \in Orders(DOMAIN groups)}

\* metadata_groups.into_values(): the groups of the map, each once, in the
\* map's iteration order, which is no particular order.
into_values(groups) ==
    {[i \in 1..Len(o) |-> groups[o[i]]] : o \in Orders(DOMAIN groups)}

\* ---------------------------------------------------------------- configuration
my_lib == <<"m", "y">>
my_pkg == <<"my", "pkg">>

\* The configuration file of crate_root: absent (ok, all default), malformed
\* (not ok), or setting some fields.
ConfigFiles ==
    {f \in [ok : BOOLEAN, cdylib_name : {None, Some(my_lib)}, package_name : {None, Some(my_pkg)}] :
        ~f.ok => f.cdylib_name = None /\ f.package_name = None}

load_initial_config(file) ==
    [ok |-> file.ok, config |-> [cdylib_name |-> file.cdylib_name, package_name |-> file.package_name]]

update_from_cdylib_name(config, name) ==
    [config EXCEPT !.cdylib_name = IF @ = None THEN Some(name) ELSE @]

update_from_ci(config, ci) ==
    [config EXCEPT !.package_name = IF @ = None THEN Some(<<"uniffi", ci.namespace>>) ELSE @,
                   !.cdylib_name = IF @ = None THEN Some(<<"uniffi_", ci.namespace>>) ELSE @]

\* ComponentInterface::new(&crate_name) followed by a successful add_metadata(group).
ComponentInterface(group) == [namespace |-> group.namespace.crate_name, items |-> group.items]

\* The library name assigned to the field instead of offered to the update.
SourceConfig_assigns_name(initial, name, ci) ==
    update_from_ci(IF name # None THEN [initial EXCEPT !.cdylib_name = name] ELSE initial, ci)

\* library_mode.rs:106-110: the configuration of one Source.
SourceConfig(initial, name, ci) ==
    update_from_ci(IF name # None THEN update_from_cdylib_name(initial, name[1]) ELSE initial, ci)

Source(group, initial, name) ==
    [crate_name |-> group.namespace.crate_name,
     ci |-> ComponentInterface(group),
     config |-> SourceConfig(initial, name, ComponentInterface(group))]

\* ---------------------------------------------------------------- calls and results
\* One call of a collaborator: its name, whether it returned Ok, and the crate
\* it was about ("" when it is about the whole library).
Call(op, ok, crate) == [op |-> op, ok |-> ok, crate |-> crate]

Ok(srcs) == Some([ok |-> TRUE, err |-> "", sources |-> srcs])
Err(op) == Some([ok |-> FALSE, err |-> op, sources |-> <<>>])

IsWrite(c) == c.op = "write_bindings"
Writes(cs) == SelectSeq(cs, IsWrite)

\* The Sources written last to first.
sources_iter_rev(srcs) == [i \in 1..Len(srcs) |-> srcs[Len(srcs) + 1 - i]]

\* sources.iter(): the order in which the Sources are written.
sources_iter(srcs) == srcs

\* ---------------------------------------------------------------- name resolution
InitName ==
    /\ library_path \in NamePaths
    /\ config_file = [ok |-> TRUE, cdylib_name |-> None, package_name |-> None]
    /\ pc = "start"
    /\ cdylib_name = None
    /\ items = <<>>
    /\ metadata_groups = <<>>
    /\ discovered = <<>>
    /\ values = <<>>
    /\ sources = <<>>
    /\ out_dir_created = FALSE
    /\ calls = <<>>
    /\ result = None

\* library_mode.rs:56
CalcCdylibName ==
    /\ pc = "start"
    /\ cdylib_name' = calc_cdylib_name(library_path)
    /\ pc' = "check"
    /\ UNCHANGED <<library_path, config_file, items, metadata_groups, discovered,
                   values, sources, out_dir_created, calls, result>>

SpecName == InitName /\ [][CalcCdylibName]_vars

\* ---------------------------------------------------------------- generate_external_bindings
PipelinePaths == {path_to \o lib \o uniffi \o so, path_to \o lib \o uniffi \o dll, path_to \o uniffi}

Init ==
    /\ library_path \in PipelinePaths
    /\ config_file \in ConfigFiles
    /\ pc = "start"
    /\ cdylib_name = None
    /\ items = <<>>
    /\ metadata_groups = <<>>
    /\ discovered = <<>>
    /\ values = <<>>
    /\ sources = <<>>
    /\ out_dir_created = FALSE
    /\ calls = <<>>
    /\ result = None

\* Line 57 without its `?`: the outcome of the check is dropped.
CheckLibraryPath_unchecked ==
    /\ pc = "check"
    /\ \E ok \in BOOLEAN :
         /\ calls' = Append(calls, Call("check_library_path", ok, ""))
         /\ pc' = "find_sources"
         /\ result' = result
    /\ UNCHANGED <<library_path, config_file, cdylib_name, items, metadata_groups,
                   discovered, values, sources, out_dir_created>>

\* library_mode.rs:57
CheckLibraryPath ==
    /\ pc = "check"
    /\ \E ok \in BOOLEAN :
         /\ calls' = Append(calls, Call("check_library_path", ok, ""))
         /\ IF ok THEN pc' = "find_sources" /\ result' = result
                  ELSE pc' = "done" /\ result' = Err("check_library_path")
    /\ UNCHANGED <<library_path, config_file, cdylib_name, items, metadata_groups,
                   discovered, values, sources, out_dir_created>>

\* A failed introspection taken for a library without metadata.
ExtractFailed_as_empty ==
    /\ calls' = Append(calls, Call("extract_from_library", FALSE, ""))
    /\ pc' = "collect"
    /\ result' = result
    /\ UNCHANGED <<items, metadata_groups, discovered, values>>

\* library_mode.rs:96, the `?` on a failed extract_from_library.
ExtractFailed ==
    /\ calls' = Append(calls, Call("extract_from_library", FALSE, ""))
    /\ pc' = "done"
    /\ result' = Err("extract_from_library")
    /\ UNCHANGED <<items, metadata_groups, discovered, values>>

\* library_mode.rs:96-101: introspection and grouping, up to the iterator over
\* the groups.
ExtractFromLibrary ==
    /\ pc = "find_sources"
    /\ \/ ExtractFailed
       \/ \E its \in ItemSeqs :
            LET grouped == group_metadata(create_metadata_groups(its), its)
            IN  /\ items' = its
                /\ discovered' = FirstSeen(its, <<>>)
                /\ calls' = calls \o <<Call("extract_from_library", TRUE, ""),
                                       Call("group_metadata", grouped.ok, "")>>
                /\ IF grouped.ok
                   THEN /\ metadata_groups' = grouped.groups
                        /\ values' \in into_values(grouped.groups)
                        /\ pc' = "collect"
                        /\ result' = result
                   ELSE /\ pc' = "done"
                        /\ result' = Err("group_metadata")
                        /\ UNCHANGED <<metadata_groups, values>>
    /\ UNCHANGED <<library_path, config_file, cdylib_name, sources, out_dir_created>>

\* A component whose add_metadata failed is skipped and the rest collected.
AddMetadataFailed_skips(crate) ==
    /\ calls' = Append(calls, Call("add_metadata", FALSE, crate))
    /\ values' = Tail(values)
    /\ UNCHANGED <<pc, result, sources>>

\* library_mode.rs:105, the `?` on a failed add_metadata, which ends collect().
AddMetadataFailed(crate) ==
    /\ calls' = Append(calls, Call("add_metadata", FALSE, crate))
    /\ pc' = "done"
    /\ result' = Err("add_metadata")
    /\ UNCHANGED <<values, sources>>

\* library_mode.rs:102-117: the closure on the next group; collect() stops at
\* the first error.
BuildSource ==
    /\ pc = "collect"
    /\ values # <<>>
    /\ LET group == Head(values)
           crate == group.namespace.crate_name
           loaded == load_initial_config(config_file)
       IN  \E meta_ok \in BOOLEAN :
             IF ~meta_ok
             THEN AddMetadataFailed(crate)
             ELSE IF ~loaded.ok
             THEN /\ calls' = calls \o <<Call("add_metadata", TRUE, crate),
                                         Call("load_initial_config", FALSE, crate)>>
                  /\ pc' = "done"
                  /\ result' = Err("load_initial_config")
                  /\ UNCHANGED <<values, sources>>
             ELSE /\ calls' = calls \o <<Call("add_metadata", TRUE, crate),
                                         Call("load_initial_config", TRUE, crate)>>
                  /\ sources' = Append(sources, Source(group, loaded.config, cdylib_name))
                  /\ values' = Tail(values)
                  /\ UNCHANGED <<pc, result>>
    /\ UNCHANGED <<library_path, config_file, cdylib_name, items, metadata_groups,
                   discovered, out_dir_created>>

\* library_mode.rs:60, and the return of line 66 when there is nothing to write.
CreateDirAll ==
    /\ pc = "collect"
    /\ values = <<>>
    /\ \E ok \in BOOLEAN :
         /\ calls' = Append(calls, Call("create_dir_all", ok, ""))
         /\ out_dir_created' = ok
         /\ IF ~ok THEN pc' = "done" /\ result' = Err("create_dir_all")
            ELSE IF sources = <<>> THEN pc' = "done" /\ result' = Ok(sources)
            ELSE pc' = "write" /\ result' = result
    /\ UNCHANGED <<library_path, config_file, cdylib_name, items, metadata_groups,
                   discovered, values, sources>>

\* Line 63 without its `?`: a failed write does not end the loop.
WriteBindings_unchecked ==
    /\ pc = "write"
    /\ LET n == Len(Writes(calls)) + 1
           source == sources_iter(sources)[n]
       IN  \E ok \in BOOLEAN :
             /\ calls' = Append(calls, Call("write_bindings", ok, source.crate_name))
             /\ IF n = Len(sources) THEN pc' = "done" /\ result' = Ok(sources)
                ELSE pc' = "write" /\ result' = result
    /\ UNCHANGED <<library_path, config_file, cdylib_name, items, metadata_groups,
                   discovered, values, sources, out_dir_created>>

\* library_mode.rs:62-66: one round of the loop, and the return after the last.
WriteBindings ==
    /\ pc = "write"
    /\ LET n == Len(Writes(calls)) + 1
           source == sources_iter(sources)[n]
       IN  \E ok \in BOOLEAN :
             /\ calls' = Append(calls, Call("write_bindings", ok, source.crate_name))
             /\ IF ~ok THEN pc' = "done" /\ result' = Err("write_bindings")
                ELSE IF n = Len(sources) THEN pc' = "done" /\ result' = Ok(sources)
                ELSE pc' = "write" /\ result' = result
    /\ UNCHANGED <<library_path, config_file, cdylib_name, items, metadata_groups,
                   discovered, values, sources, out_dir_created>>

Next ==
    \/ CalcCdylibName
    \/ CheckLibraryPath
    \/ ExtractFromLibrary
    \/ BuildSource
    \/ CreateDirAll
    \/ WriteBindings

Spec == Init /\ [][Next]_vars

\* ---------------------------------------------------------------- properties of calc_cdylib_name
Exts == {so, dll, dylib}

\* The file name with one extension of Exts removed, then a leading `lib`.
NameOf(f, e) ==
    LET stem == SubSeq(f, 1, Len(f) - Len(e))
    IN  IF starts_with(stem, lib) THEN SubSeq(stem, Len(lib) + 1, Len(stem)) ELSE stem

C2_DllKeepsLib ==
    (pc = "check" /\ file_name(library_path) # None) =>
        LET f == file_name(library_path)[1]
        IN  (starts_with(f, lib) /\ ends_with(f, dll) /\ Len(f) > Len(lib) + Len(dll)) =>
                cdylib_name = Some(SubSeq(f, 1, Len(f) - Len(dll)))

\* C3: calc_cdylib_name returns None for a path without a file name and for a
\* file name that ends in none of .so, .dll, .dylib; it returns a name only for
\* a file name [lib]<name>.<ext>, and then the result is Some(<name>).
C3_NoneUnlessConvention ==
    pc = "check" =>
        LET matches == /\ file_name(library_path) # None
                       /\ \E e \in Exts : ends_with(file_name(library_path)[1], e)
        IN  /\ ~matches => cdylib_name = None
            /\ cdylib_name # None =>
                 /\ matches
                 /\ Len(cdylib_name) = 1
                 /\ \E p \in {<<>>, lib} : \E e \in Exts :
                      file_name(library_path)[1] = p \o cdylib_name[1] \o e

C3_Witness ==
    /\ pc = "check"
    /\ file_name(library_path) = Some(lib \o uniffi)
    /\ cdylib_name = None

\* ---------------------------------------------------------------- properties of the run
FailedAt(op) == \E i \in 1..Len(calls) : calls[i].op = op /\ ~calls[i].ok
Called(op) == \E i \in 1..Len(calls) : calls[i].op = op
CratesOf(srcs) == [i \in 1..Len(srcs) |-> srcs[i].crate_name]
WrittenCrates == [i \in 1..Len(Writes(calls)) |-> Writes(calls)[i].crate]
NamespaceCrates == {items[i].crate : i \in {j \in 1..Len(items) : items[j].kind = "Namespace"}}

\* C4: check_library_path is the first collaborator call of every run; when it
\* fails the run returns that error at once: nothing else is called, no items
\* are read, no Source is built and the output directory is not created.
C4_CheckFirstFailFast ==
    /\ pc \notin {"start", "check"} => calls # <<>>
    /\ calls # <<>> => calls[1].op = "check_library_path"
    /\ (calls # <<>> /\ ~calls[1].ok) =>
         /\ Len(calls) = 1
         /\ pc = "done"
         /\ result = Err("check_library_path")
         /\ sources = <<>>
         /\ ~out_dir_created

C4_Witness ==
    /\ pc = "done"
    /\ calls = <<Call("check_library_path", FALSE, "")>>

\* C5: when extract_from_library fails the run returns an error and no Source,
\* create_dir_all is never called and write_bindings is never called.
C5_ExtractFailure ==
    FailedAt("extract_from_library") =>
        /\ pc = "done"
        /\ result = Err("extract_from_library")
        /\ result[1].sources = <<>>
        /\ ~out_dir_created
        /\ ~Called("create_dir_all")
        /\ ~Called("write_bindings")

C5_Witness ==
    /\ pc = "done"
    /\ FailedAt("extract_from_library")

\* C6: when add_metadata fails for one component, write_bindings is called for
\* no component of that run and the run returns an error and no Source.
C6_AllOrNothing ==
    FailedAt("add_metadata") =>
        /\ ~Called("write_bindings")
        /\ ~Called("create_dir_all")
        /\ pc = "done"
        /\ result = Err("add_metadata")
        /\ result[1].sources = <<>>

\* A run of three components where the second one fails.
C6_Witness ==
    /\ pc = "done"
    /\ FailedAt("add_metadata")
    /\ Len(sources) = 1
    /\ Len(values) = 2

\* C7: a successful run over items of N distinct namespaces returns N Sources
\* whose crate names are pairwise distinct and are those N namespaces.
C7_OneSourcePerComponent ==
    (pc = "done" /\ result # None /\ result[1].ok) =>
        LET names == CratesOf(result[1].sources)
        IN  /\ Len(names) = Cardinality(NamespaceCrates)
            /\ \A i, j \in 1..Len(names) : names[i] = names[j] => i = j
            /\ Range(names) = NamespaceCrates

C7_Witness ==
    /\ pc = "done"
    /\ result # None
    /\ result[1].ok
    /\ Len(result[1].sources) = 2
    /\ Len(items) = 3

\* C8 as stated: the returned Sources and the write_bindings calls are in the
\* order in which the namespaces were first seen in the items.
C8_FirstSeenOrder ==
    (pc = "done" /\ result # None /\ result[1].ok) =>
        /\ CratesOf(result[1].sources) = discovered
        /\ WrittenCrates = discovered

\* C8 as amended: the write_bindings calls follow the order of the returned
\* Sources, which is the order in which into_values yielded the groups and
\* not always the first-seen order of the namespaces.
C8_WritesFollowSources ==
    /\ \A i \in 1..Len(WrittenCrates) : i <= Len(sources) /\ WrittenCrates[i] = sources[i].crate_name
    /\ (pc = "done" /\ result # None /\ result[1].ok) =>
         WrittenCrates = CratesOf(result[1].sources)

C8_Witness ==
    /\ pc = "done"
    /\ result # None
    /\ result[1].ok
    /\ discovered = <<"core", "net">>
    /\ WrittenCrates = <<"net", "core">>

C10_CompleteOrFirstError ==
    /\ pc # "done" => result = None /\ \A i \in 1..Len(calls) : calls[i].ok
    /\ pc = "done" =>
         /\ result # None
         /\ IF result[1].ok
            THEN /\ result[1].sources = sources
                 /\ out_dir_created
                 /\ \A i \in 1..Len(calls) : calls[i].ok
                 /\ WrittenCrates = CratesOf(sources)
            ELSE /\ result[1].sources = <<>>
                 /\ calls # <<>>
                 /\ \A i \in 1..Len(calls) : calls[i].ok <=> i < Len(calls)
                 /\ result[1].err = calls[Len(calls)].op

\* A run that wrote one component and failed on the second.
C10_Witness ==
    /\ pc = "done"
    /\ result = Err("write_bindings")
    /\ Len(Writes(calls)) = 2

====
